---- MODULE Spec2Model ----
(***************************************************************************)
(* A model of app.py: the ATR estimator (compute_atr), the time-of-day     *)
(* scaler (intraday_tod_factor, atr_5m_from_daily), the stop calculator    *)
(* (compute_example_stops) on top of download_data, and the Flask handler  *)
(* index.                                                                  *)
(*                                                                         *)
(* Numbers.  The program computes in binary floating point.  The model     *)
(* computes in exact arithmetic in the field Q(sqrt(5/390)): a number is a *)
(* record [a, b, d] that stands for (a + b*sqrt(5/390)) / d, kept in       *)
(* lowest terms with d > 0; d = 0 marks NaN.  Rounding error is therefore  *)
(* not modelled: an equality or an order between two results of the model  *)
(* is one between the real numbers the floats approximate.                 *)
(***************************************************************************)
EXTENDS Integers, Sequences, FiniteSets, TLC

(***************************************************************************)
(* Bounds of the model.                                                    *)
(***************************************************************************)
\* longest daily series that is enumerated
MaxDaily == 3
\* longest raw 5-minute series that is enumerated
MaxIntra == 3
\* calendar dates 1..MaxDate are enumerated for the time-of-day factor
MaxDate == 2

(***************************************************************************)
(* Program constants.                                                      *)
(***************************************************************************)
\* compute_atr(daily, period=14)
DefaultPeriod == 14
\* minutes of one intraday bar and of the regular session: sqrt(5 / 390)
BarMinutes == 5
SessionMinutes == 390

(***************************************************************************)
(* Arithmetic.                                                             *)
(***************************************************************************)
AbsInt(n) == IF n < 0 THEN 0 - n ELSE n

SgnInt(n) == IF n < 0 THEN 0 - 1 ELSE IF n = 0 THEN 0 ELSE 1

RECURSIVE GCD(_, _)
GCD(m, n) == IF n = 0 THEN m ELSE GCD(n, m % n)

\* float('nan'): what pandas puts where a value is missing
NaN == [a |-> 0, b |-> 0, d |-> 0]

IsNaN(x) == x.d = 0

\* (a + b*sqrt(5/390)) / d in lowest terms; d # 0
Norm(a, b, d) ==
    LET g == GCD(GCD(AbsInt(a), AbsInt(b)), AbsInt(d))
        s == SgnInt(d)
    IN  [a |-> s * (a \div g), b |-> s * (b \div g), d |-> s * (d \div g)]

\* the float of an integer price, and of a decimal literal such as 0.7 = 7/10
FromInt(n) == [a |-> n, b |-> 0, d |-> 1]

Rat(n, d) == Norm(n, 0, d)

\* 390 / 5 = 78: sqrt(5/390)^2 = 1/78
SqrtSquareInv == SessionMinutes \div BarMinutes

\* math.sqrt(5 / 390)
SqrtBarOverSession == [a |-> 0, b |-> 1, d |-> 1]

NumNeg(x) == IF IsNaN(x) THEN NaN ELSE [a |-> 0 - x.a, b |-> 0 - x.b, d |-> x.d]

\* x + y over the least common denominator
NumAdd(x, y) ==
    IF IsNaN(x) \/ IsNaN(y) THEN NaN
    ELSE LET g == GCD(x.d, y.d)
         IN  Norm(x.a * (y.d \div g) + y.a * (x.d \div g),
                  x.b * (y.d \div g) + y.b * (x.d \div g),
                  x.d * (y.d \div g))

NumSub(x, y) == NumAdd(x, NumNeg(y))

NumMul(x, y) ==
    IF IsNaN(x) \/ IsNaN(y) THEN NaN
    ELSE Norm(SqrtSquareInv * x.a * y.a + x.b * y.b,
              SqrtSquareInv * (x.a * y.b + x.b * y.a),
              SqrtSquareInv * x.d * y.d)

\* the integer part of sqrt(78)
FloorSqrt == CHOOSE k \in 0..SqrtSquareInv : k * k <= SqrtSquareInv /\ SqrtSquareInv < (k + 1) * (k + 1)

\* -1 when p/q < (P + sqrt(78))/Q and 1 when p/q is larger, for p >= 0, q > 0 and
\* (P + sqrt(78))/Q a complete quotient of the continued fraction of sqrt(78):
\* the integer parts are compared, and when they agree the reciprocals of the
\* fractional parts are, in the opposite order
RECURSIVE CmpSurd(_, _, _, _)
CmpSurd(p, q, P, Q) ==
    LET n == (P + FloorSqrt) \div Q
    IN  IF p \div q < n THEN 0 - 1
        ELSE IF p \div q > n THEN 1
        ELSE IF p % q = 0 THEN 0 - 1
        ELSE 0 - CmpSurd(q, p - n * q, n * Q - P,
                         (SqrtSquareInv - (n * Q - P) * (n * Q - P)) \div Q)

\* the sign of a + b*sqrt(1/78), which decides every comparison of two numbers
NumSign(x) ==
    IF x.b = 0 THEN SgnInt(x.a)
    ELSE IF x.a = 0 THEN SgnInt(x.b)
    ELSE IF SgnInt(x.a) = SgnInt(x.b) THEN SgnInt(x.a)
    ELSE (0 - SgnInt(x.a)) * CmpSurd(AbsInt(x.b), AbsInt(x.a), 0, 1)

NumLt(x, y) == ~IsNaN(x) /\ ~IsNaN(y) /\ NumSign(NumSub(x, y)) < 0

NumLe(x, y) == ~IsNaN(x) /\ ~IsNaN(y) /\ NumSign(NumSub(x, y)) <= 0

NumAbs(x) == IF IsNaN(x) THEN NaN ELSE IF NumSign(x) < 0 THEN NumNeg(x) ELSE x

(***************************************************************************)
(* Outcomes of a call: a returned value or a raised exception.             *)
(***************************************************************************)
Return(v) == [raised |-> FALSE, exc |-> "", value |-> v]

Raise(e) == [raised |-> TRUE, exc |-> e]

\* Python's None
None == [isNone |-> TRUE]

(***************************************************************************)
(* pandas Series over a positional index 1..Len.                           *)
(***************************************************************************)
\* daily["High"], daily["Low"], daily["Close"]
Column(frame, name) == [i \in 1..Len(frame) |-> FromInt(frame[i][name])]

\* Series.shift(1): every value moves one row down, the first row gets NaN
Shift1(s) == [i \in 1..Len(s) |-> IF i = 1 THEN NaN ELSE s[i - 1]]

\* Series - Series, row by row; NaN where either side is NaN
SeriesSub(x, y) == [i \in 1..Len(x) |-> NumSub(x[i], y[i])]

\* Series.abs()
SeriesAbs(x) == [i \in 1..Len(x) |-> NumAbs(x[i])]

\* the larger of two cells under skipna=True: a NaN cell is passed over
CellMax(x, y) ==
    IF IsNaN(x) THEN y
    ELSE IF IsNaN(y) THEN x
    ELSE IF NumLt(x, y) THEN y ELSE x

\* a variant of RowMax that takes the row minimum
RowMin(c0, c1, c2) ==
    [i \in 1..Len(c0) |->
        LET m01 == IF IsNaN(c0[i]) THEN c1[i]
                   ELSE IF IsNaN(c1[i]) THEN c0[i]
                   ELSE IF NumLt(c1[i], c0[i]) THEN c1[i] ELSE c0[i]
        IN  IF IsNaN(m01) THEN c2[i]
            ELSE IF IsNaN(c2[i]) THEN m01
            ELSE IF NumLt(c2[i], m01) THEN c2[i] ELSE m01]

\* pd.concat([c0, c1, c2], axis=1).max(axis=1)
RowMax(c0, c1, c2) ==
    [i \in 1..Len(c0) |-> CellMax(CellMax(c0[i], c1[i]), c2[i])]

\* alpha of ewm(span=period): 2 / (period + 1)
Alpha(span) == Rat(2, span + 1)

\* a variant of Ewm that starts the recursion at the second row
RECURSIVE EwmFromSecond(_, _, _)
EwmFromSecond(x, span, i) ==
    IF i <= 2 THEN x[i]
    ELSE NumAdd(NumMul(NumSub(FromInt(1), Alpha(span)), EwmFromSecond(x, span, i - 1)),
                NumMul(Alpha(span), x[i]))

\* Series.ewm(span=period, adjust=False).mean() at row i:
\* y[1] = x[1], y[i] = (1 - alpha) * y[i-1] + alpha * x[i]
RECURSIVE Ewm(_, _, _)
Ewm(x, span, i) ==
    IF i = 1 THEN x[1]
    ELSE NumAdd(NumMul(NumSub(FromInt(1), Alpha(span)), Ewm(x, span, i - 1)),
                NumMul(Alpha(span), x[i]))

(***************************************************************************)
(* compute_atr                                                             *)
(***************************************************************************)
\* tr0 = high - low; tr1 = (high - close.shift(1)).abs();
\* tr2 = (low - close.shift(1)).abs(); tr = the row maximum of the three
TrueRangeOf(high, low, close) ==
    RowMax(SeriesSub(high, low),
           SeriesAbs(SeriesSub(high, Shift1(close))),
           SeriesAbs(SeriesSub(low, Shift1(close))))

TrueRange(daily) ==
    TrueRangeOf(Column(daily, "High"), Column(daily, "Low"), Column(daily, "Close"))

\* float(atr.iloc[-1]) of atr = tr.ewm(span=period, adjust=False).mean();
\* iloc[-1] of an empty Series raises IndexError
LastEwm(tr, period) ==
    IF Len(tr) = 0 THEN Raise("IndexError")
    ELSE Return(Ewm(tr, period, Len(tr)))

compute_atr(daily, period) == LastEwm(TrueRange(daily), period)

(***************************************************************************)
(* Timestamps: a calendar date and a wall-clock time in seconds since      *)
(* midnight, in the time zone of the index that holds them.                *)
(***************************************************************************)
SecondsPerDay == 24 * 3600

\* dt.time(h, m)
Time(h, m) == h * 3600 + m * 60

\* a variant of intraday_tod_factor whose first window also takes 10:00 itself
intraday_tod_factor_inclusive(timestamp) ==
    LET t == timestamp.tod
    IN  IF t <= Time(10, 0) THEN Rat(14, 10)
        ELSE IF t < Time(11, 0) THEN Rat(115, 100)
        ELSE IF t < Time(13, 0) THEN Rat(85, 100)
        ELSE IF t < Time(14, 30) THEN FromInt(1)
        ELSE Rat(13, 10)

\* 1.4, 1.15, 0.85, 1.0, 1.3 by the time of day of the timestamp
intraday_tod_factor(timestamp) ==
    LET t == timestamp.tod
    IN  IF t < Time(10, 0) THEN Rat(14, 10)
        ELSE IF t < Time(11, 0) THEN Rat(115, 100)
        ELSE IF t < Time(13, 0) THEN Rat(85, 100)
        ELSE IF t < Time(14, 30) THEN FromInt(1)
        ELSE Rat(13, 10)

\* atr_daily * sqrt(5 / 390) * intraday_tod_factor(ts)
atr_5m_from_daily(atr_daily, ts) ==
    LET baseline_factor == SqrtBarOverSession
        baseline_5m     == NumMul(atr_daily, baseline_factor)
    IN  NumMul(baseline_5m, intraday_tod_factor(ts))

(***************************************************************************)
(* download_data.  What yfinance answers is the input: a daily frame (a    *)
(* sequence of bars) and a 5-minute frame (rows, and the time zone of its  *)
(* index: "naive", "UTC" or "US/Eastern"), or an exception.                *)
(***************************************************************************)
\* US/Eastern is UTC-4 on a date of daylight saving time, else UTC-5; in the
\* model the even dates are the ones of daylight saving time
EasternOffset(date) == IF date % 2 = 0 THEN 4 * 3600 ELSE 5 * 3600

\* intra.tz_localize("UTC") when intra.index.tz is None
TzLocalizeUtc(frame) ==
    IF frame.tz = "naive" THEN [frame EXCEPT !.tz = "UTC"] ELSE frame

\* the wall clock of US/Eastern at the instant of a UTC timestamp
UtcToEastern(ts) ==
    LET off == EasternOffset(ts.date)
    IN  IF ts.tod >= off THEN [date |-> ts.date, tod |-> ts.tod - off]
        ELSE [date |-> ts.date - 1, tod |-> ts.tod - off + SecondsPerDay]

\* intra.tz_convert("US/Eastern")
TzConvertEastern(frame) ==
    IF frame.tz = "US/Eastern" THEN frame
    ELSE [tz   |-> "US/Eastern",
          rows |-> [i \in 1..Len(frame.rows) |->
                      [frame.rows[i] EXCEPT !.ts = UtcToEastern(frame.rows[i].ts)]]]

\* intra.between_time(lo, hi): both ends are kept
BetweenTime(frame, lo, hi) ==
    [frame EXCEPT !.rows =
        SelectSeq(frame.rows, LAMBDA r : lo <= r.ts.tod /\ r.ts.tod <= hi)]

download_data(feed) ==
    IF feed.raised THEN Raise(feed.exc)
    ELSE IF Len(feed.intra.rows) = 0 \/ Len(feed.daily) = 0
    THEN Return([daily |-> feed.daily, intra |-> feed.intra])
    ELSE Return([daily |-> feed.daily,
                 intra |-> BetweenTime(TzConvertEastern(TzLocalizeUtc(feed.intra)),
                                       Time(9, 30), Time(16, 0))])

(***************************************************************************)
(* compute_example_stops                                                   *)
(***************************************************************************)
\* str.upper() and str.strip() on strings held as sequences of characters
UpperChar(c) == IF c = "a" THEN "A" ELSE c

Upper(s) == [i \in 1..Len(s) |-> UpperChar(s[i])]

RECURSIVE Strip(_)
Strip(s) ==
    IF Len(s) = 0 THEN s
    ELSE IF Head(s) = " " THEN Strip(Tail(s))
    ELSE IF s[Len(s)] = " " THEN Strip(SubSeq(s, 1, Len(s) - 1))
    ELSE s

\* rows.iloc[k] for a negative k: the row k places from the end
ILoc(rows, k) == rows[Len(rows) + 1 + k]

\* a variant of last_bar that takes the last row of the series
last_bar_final(intra) == ILoc(intra.rows, 0 - 1)

\* last_bar = intra.iloc[-2]
last_bar(intra) == ILoc(intra.rows, 0 - 2)

\* k_atr = 0.7
DefaultKAtr == Rat(7, 10)

\* a variant of Distances that measures the long distance from the stop up to
\* the entry with the operands exchanged
DistancesReversed(entry, stop_long, stop_short) ==
    [stop_long  |-> stop_long,
     dist_long  |-> NumSub(stop_long, entry),
     stop_short |-> stop_short,
     dist_short |-> NumSub(stop_short, entry)]

\* dist_long = entry - stop_long; dist_short = stop_short - entry
Distances(entry, stop_long, stop_short) ==
    [stop_long  |-> stop_long,
     dist_long  |-> NumSub(entry, stop_long),
     stop_short |-> stop_short,
     dist_short |-> NumSub(stop_short, entry)]

\* a variant of StopLevels that puts the long stop above the swing low
StopLevelsLongAbove(entry, swing_low, swing_high, k_atr, atr_5m) ==
    Distances(entry,
              NumAdd(swing_low, NumMul(k_atr, atr_5m)),
              NumAdd(swing_high, NumMul(k_atr, atr_5m)))

\* stop_long = swing_low - k_atr * atr_5m; stop_short = swing_high + k_atr * atr_5m
StopLevels(entry, swing_low, swing_high, k_atr, atr_5m) ==
    Distances(entry,
              NumSub(swing_low, NumMul(k_atr, atr_5m)),
              NumAdd(swing_high, NumMul(k_atr, atr_5m)))

\* the dict that compute_example_stops returns
ResultRecord(ticker, ts, entry, swing_low, swing_high, atr_daily, atr_5m, k_atr, lv) ==
    [ticker      |-> Upper(ticker),
     timestamp   |-> ts,
     entry_price |-> entry,
     swing_low   |-> swing_low,
     swing_high  |-> swing_high,
     atr_daily   |-> atr_daily,
     atr_5m      |-> atr_5m,
     k_atr       |-> k_atr,
     stop_long   |-> lv.stop_long,
     dist_long   |-> lv.dist_long,
     stop_short  |-> lv.stop_short,
     dist_short  |-> lv.dist_short]

\* from atr_5m on: the stops and the returned dict
StopsAt(ticker, k_atr, ts, entry, swing_low, swing_high, atr_daily, atr_5m) ==
    ResultRecord(ticker, ts, entry, swing_low, swing_high, atr_daily, atr_5m, k_atr,
                 StopLevels(entry, swing_low, swing_high, k_atr, atr_5m))

\* from last_bar on: ts, entry, swing_low, swing_high and atr_5m of the bar
StopsOfBar(ticker, k_atr, bar, atr_daily) ==
    StopsAt(ticker, k_atr, bar.ts, FromInt(bar.Close), FromInt(bar.Low),
            FromInt(bar.High), atr_daily, atr_5m_from_daily(atr_daily, bar.ts))

\* from atr_daily = compute_atr(daily, period=14) on
StopsWithAtr(ticker, k_atr, intra, atr) ==
    IF atr.raised THEN atr
    ELSE IF Len(intra.rows) < 2 THEN Return(None)
    ELSE Return(StopsOfBar(ticker, k_atr, last_bar(intra), atr.value))

\* from daily, intra = download_data(ticker) on
StopsOfDownload(ticker, k_atr, dl) ==
    IF dl.raised THEN dl
    ELSE IF Len(dl.value.daily) = 0 \/ Len(dl.value.intra.rows) = 0 THEN Return(None)
    ELSE StopsWithAtr(ticker, k_atr, dl.value.intra,
                      compute_atr(dl.value.daily, DefaultPeriod))

compute_example_stops(ticker, k_atr, feed) ==
    StopsOfDownload(ticker, k_atr, download_data(feed))

(***************************************************************************)
(* index: the page that is rendered for a request.                         *)
(***************************************************************************)
\* request.form.get(key, default)
FormGet(form, key, default) == IF key \in DOMAIN form THEN form[key] ELSE default

NotCalled == [called |-> FALSE]

\* render_template("index.html", result=result, error=error)
Page(call, result, error) == [call |-> call, result |-> result, error |-> error]

\* a variant of PageOfCall that reports the error also beside a result
PageOfCallErrorAlways(out) ==
    IF out.raised
    THEN Page([called |-> TRUE, out |-> out], None, [msg |-> "Error: " \o out.exc])
    ELSE Page([called |-> TRUE, out |-> out], out.value,
              [msg |-> "Could not compute ATR / intraday data for this ticker."])

\* the try block: result = compute_example_stops(ticker), error when it is
\* None, and error when it raised
PageOfCall(out) ==
    IF out.raised
    THEN Page([called |-> TRUE, out |-> out], None, [msg |-> "Error: " \o out.exc])
    ELSE IF out.value = None
    THEN Page([called |-> TRUE, out |-> out], None,
              [msg |-> "Could not compute ATR / intraday data for this ticker."])
    ELSE Page([called |-> TRUE, out |-> out], out.value, None)

\* the POST branch, from the stripped ticker on
PageOfTicker(ticker, feed) ==
    IF Len(ticker) > 0
    THEN PageOfCall(compute_example_stops(ticker, DefaultKAtr, feed))
    ELSE Page(NotCalled, None, [msg |-> "Please enter a ticker symbol."])

index(request, feed) ==
    IF request.method = "POST"
    THEN PageOfTicker(Strip(FormGet(request.form, "ticker", <<>>)), feed)
    ELSE Page(NotCalled, None, None)

(***************************************************************************)
(* State.                                                                  *)
(***************************************************************************)
VARIABLES
    pc,        \* "waiting" for a request or an argument, "rendered" / "done" after it
    request,   \* the request that index handled: [method, form]
    feed,      \* what yfinance answered to the request's download_data
    call,      \* whether index called compute_example_stops, and what came back
    result,    \* the result that index rendered
    error,     \* the error that index rendered
    daily,     \* the argument of compute_atr
    atrOut,    \* the outcome of compute_atr(daily)
    ts,        \* the timestamp argument of intraday_tod_factor and atr_5m_from_daily
    atrIn,     \* the atr_daily argument of atr_5m_from_daily
    factorOut, \* intraday_tod_factor(ts)
    atr5mOut   \* atr_5m_from_daily(atrIn, ts)

vars == <<pc, request, feed, call, result, error, daily, atrOut, ts, atrIn,
          factorOut, atr5mOut>>

indexVars == <<request, feed, call, result, error>>

atrVars == <<daily, atrOut>>

todVars == <<ts, atrIn, factorOut, atr5mOut>>

(***************************************************************************)
(* Inputs.                                                                 *)
(***************************************************************************)
SeqsUpTo(S, n) == UNION {[1..k -> S] : k \in 0..n}

PriceLevels == {1, 2}

\* every bar over the price levels, also one whose high is below its low
Bars == [High : PriceLevels, Low : PriceLevels, Close : PriceLevels]

\* the daily series handed to compute_atr
DailySeries == SeqsUpTo(Bars, MaxDaily)

\* the bars of the daily frames yfinance answers with: a day with a range and
\* a flat one
DailyFrameBars ==
    {[High |-> 2, Low |-> 1, Close |-> 1], [High |-> 2, Low |-> 2, Close |-> 2]}

DailyFrames == SeqsUpTo(DailyFrameBars, MaxDaily)

\* the bars of the 5-minute frames: two with Low <= Close <= High, one that
\* closes below its low and one that closes above its high
IntraBars ==
    {[High |-> 2, Low |-> 1, Close |-> 1], [High |-> 2, Low |-> 1, Close |-> 2],
     [High |-> 2, Low |-> 2, Close |-> 1], [High |-> 1, Low |-> 1, Close |-> 2]}

\* the index of a 5-minute frame: its time zone and the timestamp of its first
\* row; the rows follow every 300 seconds
IntraIndexes ==
    { [tz |-> "UTC",        first |-> [date |-> 1, tod |-> Time(14, 25)]],
      [tz |-> "naive",      first |-> [date |-> 2, tod |-> Time(13, 50)]],
      [tz |-> "US/Eastern", first |-> [date |-> 2, tod |-> Time(15, 55)]] }

IntraFrame(idx, bars) ==
    [tz   |-> idx.tz,
     rows |-> [i \in 1..Len(bars) |->
                 [ts    |-> [date |-> idx.first.date,
                             tod  |-> idx.first.tod + (i - 1) * BarMinutes * 60],
                  High  |-> bars[i].High,
                  Low   |-> bars[i].Low,
                  Close |-> bars[i].Close]]]

IntraFrames ==
    {IntraFrame(idx, bars) : idx \in IntraIndexes, bars \in SeqsUpTo(IntraBars, MaxIntra)}

NoFeed == [raised |-> TRUE, exc |-> "not downloaded"]

Feeds ==
    {[raised |-> TRUE, exc |-> "download failed"]}
    \cup {[raised |-> FALSE, exc |-> "", daily |-> d, intra |-> f] :
            d \in DailyFrames, f \in IntraFrames}

\* request.form: no field at all, or a ticker field
Forms ==
    {<<>>} \cup {[f \in {"ticker"} |-> t] : t \in {<<>>, <<" ">>, <<" ", "a", " ">>}}

Requests ==
    {[method |-> "GET", form |-> <<>>]} \cup {[method |-> "POST", form |-> f] : f \in Forms}

Timestamps ==
    {[date |-> dd, tod |-> Time(h, m) + sec] :
        dd \in 1..MaxDate, h \in 0..23, m \in 0..59, sec \in {0, 59}}

AtrInputs == {FromInt(0), FromInt(2)}

(***************************************************************************)
(* Spec: the server handles one request after the other.                   *)
(***************************************************************************)
Idle ==
    /\ request = [method |-> "GET", form |-> <<>>]
    /\ feed = NoFeed
    /\ call = NotCalled
    /\ result = None
    /\ error = None
    /\ daily = <<>>
    /\ atrOut = Raise("not called")
    /\ ts = [date |-> 1, tod |-> 0]
    /\ atrIn = FromInt(0)
    /\ factorOut = NaN
    /\ atr5mOut = NaN

Init == pc = "waiting" /\ Idle

\* index() for one request; what yfinance answers is drawn with the request
Index ==
    /\ pc = "waiting"
    /\ \E req \in Requests, f \in Feeds :
          \E page \in {index(req, f)} :
              /\ request' = req
              /\ feed' = IF page.call.called THEN f ELSE NoFeed
              /\ call' = page.call
              /\ result' = page.result
              /\ error' = page.error
    /\ pc' = "rendered"
    /\ UNCHANGED <<atrVars, todVars>>

\* app.run(): the response is sent and the next request is awaited
Serve ==
    /\ pc = "rendered"
    /\ pc' = "waiting"
    /\ request' = [method |-> "GET", form |-> <<>>]
    /\ feed' = NoFeed
    /\ call' = NotCalled
    /\ result' = None
    /\ error' = None
    /\ UNCHANGED <<atrVars, todVars>>

Next == Index \/ Serve

Spec == Init /\ [][Next]_vars

(***************************************************************************)
(* SpecAtr: compute_atr applied to every daily series of the bounds.       *)
(***************************************************************************)
InitAtr ==
    /\ pc = "waiting"
    /\ daily \in DailySeries
    /\ atrOut = Raise("not called")
    /\ request = [method |-> "GET", form |-> <<>>]
    /\ feed = NoFeed
    /\ call = NotCalled
    /\ result = None
    /\ error = None
    /\ ts = [date |-> 1, tod |-> 0]
    /\ atrIn = FromInt(0)
    /\ factorOut = NaN
    /\ atr5mOut = NaN

ComputeAtr ==
    /\ pc = "waiting"
    /\ atrOut' = compute_atr(daily, DefaultPeriod)
    /\ pc' = "done"
    /\ UNCHANGED <<daily, indexVars, todVars>>

NextAtr == ComputeAtr

SpecAtr == InitAtr /\ [][NextAtr]_vars

(***************************************************************************)
(* SpecTod: intraday_tod_factor and atr_5m_from_daily applied to every     *)
(* timestamp of the bounds.                                                *)
(***************************************************************************)
InitTod ==
    /\ pc = "waiting"
    /\ ts \in Timestamps
    /\ atrIn \in AtrInputs
    /\ factorOut = NaN
    /\ atr5mOut = NaN
    /\ request = [method |-> "GET", form |-> <<>>]
    /\ feed = NoFeed
    /\ call = NotCalled
    /\ result = None
    /\ error = None
    /\ daily = <<>>
    /\ atrOut = Raise("not called")

ScaleAtr ==
    /\ pc = "waiting"
    /\ factorOut' = intraday_tod_factor(ts)
    /\ atr5mOut' = atr_5m_from_daily(atrIn, ts)
    /\ pc' = "done"
    /\ UNCHANGED <<ts, atrIn, indexVars, atrVars>>

NextTod == ScaleAtr

SpecTod == InitTod /\ [][NextTod]_vars

(***************************************************************************)
(* Properties.                                                             *)
(***************************************************************************)
\* the request was handled through compute_example_stops and yfinance answered
Downloaded == pc = "rendered" /\ call.called /\ ~feed.raised

\* the 5-minute rows that download_data handed to compute_example_stops
FetchedRows == download_data(feed).value.intra.rows

\* compute_example_stops returned a result record
Returned == pc = "rendered" /\ call.called /\ ~call.out.raised /\ call.out.value # None

\* C1: with a non-empty daily series and at least 2 fetched 5-minute bars,
\* compute_example_stops returns a record whose timestamp, entry_price,
\* swing_low and swing_high are the index, Close, Low and High of the
\* second-to-last fetched bar, and its timestamp is not that of the last bar.
C1_SecondToLastBar ==
    (Downloaded /\ Len(feed.daily) >= 1 /\ Len(FetchedRows) >= 2) =>
        LET n == Len(FetchedRows)
        IN  /\ Returned
            /\ result.timestamp = FetchedRows[n - 1].ts
            /\ result.entry_price = FromInt(FetchedRows[n - 1].Close)
            /\ result.swing_low = FromInt(FetchedRows[n - 1].Low)
            /\ result.swing_high = FromInt(FetchedRows[n - 1].High)
            /\ result.timestamp # FetchedRows[n].ts

\* a record was returned from 3 fetched bars of which the second differs from
\* the first and from the last
C1_Witness ==
    /\ Returned
    /\ Len(FetchedRows) = 3
    /\ FetchedRows[2].Close # FetchedRows[3].Close
    /\ FetchedRows[2].Low # FetchedRows[1].Low
    /\ result.entry_price = FromInt(FetchedRows[2].Close)

\* C2: whenever the daily series or the fetched 5-minute series has 0 or 1
\* bars, compute_example_stops returns None and raises nothing.
C2_ShortSeriesGiveNone ==
    (Downloaded /\ (Len(feed.daily) <= 1 \/ Len(FetchedRows) <= 1)) =>
        (~call.out.raised /\ call.out.value = None)

\* C3: in every returned record stop_long = swing_low - k*atr_5m,
\* dist_long = entry - stop_long, stop_short = swing_high + k*atr_5m and
\* dist_short = stop_short - entry, with k and atr_5m of the same record.
C3_StopArithmetic ==
    Returned =>
        /\ result.stop_long =
               NumSub(result.swing_low, NumMul(result.k_atr, result.atr_5m))
        /\ result.dist_long = NumSub(result.entry_price, result.stop_long)
        /\ result.stop_short =
               NumAdd(result.swing_high, NumMul(result.k_atr, result.atr_5m))
        /\ result.dist_short = NumSub(result.stop_short, result.entry_price)

\* a record with a positive atr_5m: the stops differ from the swing points
C3_Witness ==
    /\ Returned
    /\ NumSign(result.atr_5m) > 0
    /\ NumLt(result.stop_long, result.swing_low)
    /\ NumLt(result.swing_high, result.stop_short)

\* the dollar-risk budgets a caller may have in mind
DollarRisks == {0, 100}

\* C4: shares_long is in the record exactly when dollar_risk > 0 and
\* dist_long > 0, and then shares_long * dist_long = dollar_risk; the same for
\* shares_short and dist_short.
C4_SharesIffRiskAndDistance ==
    \A dollar_risk \in DollarRisks :
        Returned =>
            /\ ("shares_long" \in DOMAIN result)
                   <=> (dollar_risk > 0 /\ NumSign(result.dist_long) > 0)
            /\ ("shares_short" \in DOMAIN result)
                   <=> (dollar_risk > 0 /\ NumSign(result.dist_short) > 0)
            /\ ("shares_long" \in DOMAIN result) =>
                   NumMul(result.shares_long, result.dist_long) = FromInt(dollar_risk)
            /\ ("shares_short" \in DOMAIN result) =>
                   NumMul(result.shares_short, result.dist_short) = FromInt(dollar_risk)

\* the windows of the time-of-day multiplier: lo <= time < hi
TodWindows ==
    { [lo |-> 0,            hi |-> Time(10, 0),   mult |-> Rat(14, 10)],
      [lo |-> Time(10, 0),  hi |-> Time(11, 0),   mult |-> Rat(115, 100)],
      [lo |-> Time(11, 0),  hi |-> Time(13, 0),   mult |-> Rat(85, 100)],
      [lo |-> Time(13, 0),  hi |-> Time(14, 30),  mult |-> FromInt(1)],
      [lo |-> Time(14, 30), hi |-> SecondsPerDay, mult |-> Rat(13, 10)] }

WindowsOf(t) == {w \in TodWindows : w.lo <= t /\ t < w.hi}

\* C5: the time of day of the timestamp lies in exactly one window, the
\* multiplier is that window's, whatever the date, and atr_5m_from_daily
\* scales by it.
C5_TodStepFunction ==
    pc = "done" =>
        /\ Cardinality(WindowsOf(ts.tod)) = 1
        /\ \A w \in WindowsOf(ts.tod) :
              /\ factorOut = w.mult
              /\ atr5mOut = NumMul(NumMul(atrIn, SqrtBarOverSession), w.mult)
              /\ \A dd \in 1..MaxDate :
                    intraday_tod_factor([date |-> dd, tod |-> ts.tod]) = w.mult

\* the multiplier was computed for 10:00:00 sharp, on the last date
C5_Witness ==
    /\ pc = "done"
    /\ ts = [date |-> MaxDate, tod |-> Time(10, 0)]
    /\ factorOut = Rat(115, 100)

(***************************************************************************)
(* The ATR in closed form, in integers: with a = 2/(N+1) and n rows,       *)
(*   ATR * (N+1)^(n-k) = (N-1)^(n-k) * TR[k]                               *)
(*                       + SUM i in k+1..n : 2 * (N-1)^(n-i) * (N+1)^(i-k-1) * TR[i] *)
(* when the recursion is seeded with TR[k].  Rows are counted from 1.      *)
(***************************************************************************)
RECURSIVE Pow(_, _)
Pow(b, e) == IF e = 0 THEN 1 ELSE b * Pow(b, e - 1)

Max3(x, y, z) ==
    IF x >= y /\ x >= z THEN x ELSE IF y >= z THEN y ELSE z

\* the true range of row i >= 2, and the high-low range of row 1
RangeOfRow(d, i) ==
    IF i = 1 THEN d[1].High - d[1].Low
    ELSE Max3(d[i].High - d[i].Low,
              AbsInt(d[i].High - d[i - 1].Close),
              AbsInt(d[i].Low - d[i - 1].Close))

RECURSIVE TailSum(_, _, _)
TailSum(d, k, i) ==
    IF i <= k THEN 0
    ELSE 2 * Pow(DefaultPeriod - 1, Len(d) - i) * Pow(DefaultPeriod + 1, i - k - 1)
           * RangeOfRow(d, i)
         + TailSum(d, k, i - 1)

SeededAtr(d, k) ==
    Rat(Pow(DefaultPeriod - 1, Len(d) - k) * RangeOfRow(d, k) + TailSum(d, k, Len(d)),
        Pow(DefaultPeriod + 1, Len(d) - k))

\* C6 as claimed: for a series of at least 2 bars compute_atr returns the
\* last value of the recursion over the true ranges of the bars after the
\* first, seeded by the true range of the second bar.
C6_SeededBySecondBar ==
    (pc = "done" /\ Len(daily) >= 2) => atrOut = Return(SeededAtr(daily, 2))

\* C6 as amended: for a series of at least 2 bars compute_atr returns the last
\* value of the recursion seeded by the high-low range of the first bar, with
\* the true range max(high-low, |high-prev close|, |low-prev close|) from the
\* second bar on.
C6_SeededByFirstBar ==
    (pc = "done" /\ Len(daily) >= 2) => atrOut = Return(SeededAtr(daily, 1))

\* an ATR of 3 bars that differs from the one seeded by the second bar
C6_Witness ==
    /\ pc = "done"
    /\ Len(daily) = 3
    /\ ~atrOut.raised
    /\ atrOut.value # SeededAtr(daily, 2)
    /\ RangeOfRow(daily, 3) # RangeOfRow(daily, 2)

\* C7: compute_atr fails for a daily series of fewer than 2 bars; it never
\* returns an ATR value for one.
C7_ShortSeriesFail ==
    (pc = "done" /\ Len(daily) < 2) => atrOut.raised

\* C8 as claimed: whenever atr_5m >= 0 and k >= 0, dist_long >= k*atr_5m and
\* dist_short >= k*atr_5m, for every selected bar.
C8_DistancesAtLeastKAtr ==
    (Returned /\ NumSign(result.atr_5m) >= 0 /\ NumSign(result.k_atr) >= 0) =>
        /\ NumLe(NumMul(result.k_atr, result.atr_5m), result.dist_long)
        /\ NumLe(NumMul(result.k_atr, result.atr_5m), result.dist_short)

\* C8 as amended: whenever atr_5m >= 0 and k >= 0, dist_long >= k*atr_5m if the
\* bar's low is at most its close, and dist_short >= k*atr_5m if its close is
\* at most its high.
C8_DistancesOfOrderedBar ==
    (Returned /\ NumSign(result.atr_5m) >= 0 /\ NumSign(result.k_atr) >= 0) =>
        /\ NumLe(result.swing_low, result.entry_price) =>
              NumLe(NumMul(result.k_atr, result.atr_5m), result.dist_long)
        /\ NumLe(result.entry_price, result.swing_high) =>
              NumLe(NumMul(result.k_atr, result.atr_5m), result.dist_short)

\* a record of a bar that closes at its low and below its high, with a
\* positive atr_5m
C8_Witness ==
    /\ Returned
    /\ NumSign(result.atr_5m) > 0
    /\ result.swing_low = result.entry_price
    /\ NumLt(result.entry_price, result.swing_high)
    /\ NumLe(NumMul(result.k_atr, result.atr_5m), result.dist_long)

\* C9 as claimed: for every daily series of at least 2 bars the value that
\* compute_atr returns is non-negative.
C9_AtrNonNegative ==
    (pc = "done" /\ Len(daily) >= 2) => (~atrOut.raised /\ NumSign(atrOut.value) >= 0)

\* C9 as amended: for every daily series of at least 2 bars whose first bar
\* has its high at or above its low, the value that compute_atr returns is
\* non-negative, whatever the later bars are.
C9_AtrNonNegativeAfterOrderedFirstBar ==
    (pc = "done" /\ Len(daily) >= 2 /\ daily[1].High >= daily[1].Low) =>
        (~atrOut.raised /\ NumSign(atrOut.value) >= 0)

\* a series whose first bar is ordered and whose second has its high below
\* its low
C9_Witness ==
    /\ pc = "done"
    /\ Len(daily) >= 2
    /\ daily[1].High >= daily[1].Low
    /\ daily[2].High < daily[2].Low
    /\ ~atrOut.raised
    /\ NumSign(atrOut.value) >= 0

\* the ticker field is missing or holds nothing but spaces
BlankTicker(form) ==
    "ticker" \notin DOMAIN form \/ \A i \in 1..Len(form["ticker"]) : form["ticker"][i] = " "

\* C10: result and error are never both set on the rendered page.  On GET
\* both are None; on POST with a blank ticker the error is set and
\* compute_example_stops is not called; on POST with a ticker it is called and
\* exactly one of the two is set: result when a record came back, error when
\* None came back or an exception was raised.
C10_ResultXorError ==
    pc = "rendered" =>
        /\ ~(result # None /\ error # None)
        /\ request.method = "GET" => (result = None /\ error = None /\ ~call.called)
        /\ (request.method = "POST" /\ BlankTicker(request.form)) =>
              (result = None /\ error # None /\ ~call.called)
        /\ (request.method = "POST" /\ ~BlankTicker(request.form)) =>
              /\ call.called
              /\ (result # None) # (error # None)
              /\ (result # None) <=> (~call.out.raised /\ call.out.value # None)
              /\ (result # None) => result = call.out.value

\* a POST whose download raised: the error is rendered, no result
C10_Witness ==
    /\ pc = "rendered"
    /\ request.method = "POST"
    /\ call.called
    /\ call.out.raised
    /\ error = [msg |-> "Error: download failed"]
    /\ result = None

====
